---- MODULE Spec2Model ----
(***************************************************************************)
(* The lollipop state-machine engine (jwald3/lollipop).                    *)
(*                                                                         *)
(* The repository holds two revisions of the guarded engine:               *)
(*   "guard"  - src/state_machine.go: Transition{To, Guard}; Transition()  *)
(*              asks CanTransition() and then runs exit / entry actions.   *)
(*   "action" - src/cmd/main.go:277-447: Transition{From, To, Guard,       *)
(*              Action}; Transition() looks the edge up itself, checks the *)
(*              guard, and runs exit / transition action / entry action.   *)
(* Both are modelled; rev is fixed by the constructor and selects which    *)
(* revision's methods act on the engine.                                   *)
(*                                                                         *)
(* A closure (Guard, Action) is modelled by a name that tells what it      *)
(* returns when called, so that an engine call is a function of the engine *)
(* and its argument.  An engine call is one atomic step; what happened     *)
(* inside the call (closures invoked, writes of sm.State, in order) is     *)
(* kept in last.trace, its results in last.err / last.ret.                 *)
(*                                                                         *)
(* Two further specifications share the variables: SpecTrip adds the plain *)
(* engine of src/unnamed/part_000 driven by the trip status program, and   *)
(* SpecRace runs two goroutines through Transition() statement by          *)
(* statement (calls holds their positions; it is NoThreads elsewhere).     *)
(***************************************************************************)
EXTENDS Integers, Sequences, FiniteSets, TLC

\* Bound: edges plus closures (guards, actions) a caller registers.
MaxSize == 4

States == {"A", "B"}
Revisions == {"guard", "action"}

Nil == "nil"
Guards == {"gTrue", "gFalse"}
Actions == {"aOk", "aFail"}

\* Guard func() bool: the value the closure returns.
GuardHolds(g) == g = "gTrue"
\* Action func() error: whether the closure returns a non-nil error.
ActionFails(a) == a = "aFail"

VARIABLES rev, State, Transitions, InitialState, entryActions, exitActions, last,
          calls

vars == <<rev, State, Transitions, InitialState, entryActions, exitActions, last, calls>>

\* The StateMachine struct as one value.
sm == [State |-> State, Transitions |-> Transitions, InitialState |-> InitialState,
       entryActions |-> entryActions, exitActions |-> exitActions]

EmptyMap == [s \in {} |-> Nil]

\* Go map read m[k]: the zero value (nil) for a missing key.
Lookup(m, k) == IF k \in DOMAIN m THEN m[k] ELSE Nil

\* Go map write m[k] = v.
Store(m, k, v) == [x \in DOMAIN m \cup {k} |-> IF x = k THEN v ELSE m[x]]

----------------------------------------------------------------------------
\* Errors: the sentinel wrapped with %w ("none" when nothing is wrapped) and
\* the shape of the message.
NoErr == [kind |-> "nil", text |-> "nil"]
Err(kind, text) == [kind |-> kind, text |-> text]

ErrInvalidTransition == "ErrInvalidTransition"
ErrEntryActionFailed == "ErrEntryActionFailed"
ErrExitActionFailed == "ErrExitActionFailed"

\* One thing that happened inside a call: a closure invoked (ev = "guard",
\* "exit", "action", "entry"; id = the closure; idx = the edge's position in
\* its list, 0 for per-state actions) or a write of sm.State (ev = "write",
\* id = the value written).  at = sm.State when it happened (after a write).
Ev(ev, id, idx, at) == [ev |-> ev, id |-> id, idx |-> idx, at |-> at]

NoCall == [op |-> "none", to |-> Nil, pre |-> Nil, ret |-> FALSE, err |-> NoErr,
           why |-> Nil, trace |-> <<>>]
----------------------------------------------------------------------------
\* Registration.

\* The Transition struct.  The "guard" revision's struct has no Action field:
\* its records carry Nil there and its methods never read it.
TransitionRec(to, guard, action) == [To |-> to, Guard |-> guard, Action |-> action]

\* AddTransition that skips a record the list already holds.
AddTransitionDeduplicates(T, from, to, guard, action) ==
    IF from \in DOMAIN T /\ \E i \in DOMAIN T[from] : T[from][i] = TransitionRec(to, guard, action)
    THEN T
    ELSE LET T1 == IF from \notin DOMAIN T THEN Store(T, from, <<>>) ELSE T
         IN  Store(T1, from, Append(T1[from], TransitionRec(to, guard, action)))

\* AddTransition: create the list when the key has none (a missing key
\* reads as the nil slice), then append.
AddTransition(T, from, to, guard, action) ==
    LET T1 == IF from \notin DOMAIN T THEN Store(T, from, <<>>) ELSE T
    IN  Store(T1, from, Append(T1[from], TransitionRec(to, guard, action)))

\* SetEntryAction / SetExitAction: sm.entryActions[state] = action.
\* SetAction that keeps the closure a state already has.
SetActionKeepsFirst(m, state, action) ==
    IF state \in DOMAIN m THEN m ELSE Store(m, state, action)

SetAction(m, state, action) == Store(m, state, action)

----------------------------------------------------------------------------
\* Lookup of the requested edge.

\* Scan without the early return: the last matching record wins.
RECURSIVE ScanLast(_, _, _)
ScanLast(transitions, to, i) ==
    IF i > Len(transitions) THEN 0
    ELSE LET later == ScanLast(transitions, to, i + 1)
         IN  IF later # 0 THEN later
             ELSE IF transitions[i].To = to THEN i ELSE 0

\* Scan that falls back to the first record when none matches.
RECURSIVE ScanFallsBackToFirst(_, _, _)
ScanFallsBackToFirst(transitions, to, i) ==
    IF i > Len(transitions) THEN (IF Len(transitions) > 0 THEN 1 ELSE 0)
    ELSE IF transitions[i].To = to THEN i
    ELSE ScanFallsBackToFirst(transitions, to, i + 1)

\* for _, transition := range transitions { if transition.To == to {...} }
\* from position i on: the position of the first record whose To is `to`,
\* 0 when the loop runs off the end of the list.
RECURSIVE Scan(_, _, _)
Scan(transitions, to, i) ==
    IF i > Len(transitions) THEN 0
    ELSE IF transitions[i].To = to THEN i
    ELSE Scan(transitions, to, i + 1)

\* CheckGuard with the guard's verdict dropped: a guarded edge always passes.
CheckGuardIgnoresVerdict(t, i, at) ==
    IF t.Guard # Nil
    THEN [ok |-> TRUE, trace |-> <<Ev("guard", t.Guard, i, at)>>]
    ELSE [ok |-> TRUE, trace |-> <<>>]

\* CheckGuard that calls the guard a second time for its verdict.
CheckGuardCallsTwice(t, i, at) ==
    IF t.Guard # Nil
    THEN [ok |-> GuardHolds(t.Guard),
          trace |-> <<Ev("guard", t.Guard, i, at), Ev("guard", t.Guard, i, at)>>]
    ELSE [ok |-> TRUE, trace |-> <<>>]

\* if transition.Guard != nil { return transition.Guard() }; return true
\* The guard's verdict and the guard call it took, if any.
CheckGuard(t, i, at) ==
    IF t.Guard # Nil
    THEN [ok |-> GuardHolds(t.Guard), trace |-> <<Ev("guard", t.Guard, i, at)>>]
    ELSE [ok |-> TRUE, trace |-> <<>>]

\* CanTransition that answers true for a state without a transition list.
CanTransitionAssumesEdges(m, to) ==
    IF m.State \notin DOMAIN m.Transitions
    THEN [ret |-> TRUE, why |-> "ok", trace |-> <<>>]
    ELSE LET transitions == m.Transitions[m.State]
             i == Scan(transitions, to, 1)
         IN  IF i = 0
             THEN [ret |-> FALSE, why |-> "InvalidTransition", trace |-> <<>>]
             ELSE LET g == CheckGuard(transitions[i], i, m.State)
                  IN  [ret |-> g.ok,
                       why |-> IF g.ok THEN "ok" ELSE "GuardRejected",
                       trace |-> g.trace]

\* CanTransition that answers true for any matching edge, guarded or not.
CanTransitionSkipsGuard(m, to) ==
    IF m.State \notin DOMAIN m.Transitions
    THEN [ret |-> FALSE, why |-> "NoTransitionsDefined", trace |-> <<>>]
    ELSE LET i == Scan(m.Transitions[m.State], to, 1)
         IN  IF i = 0
             THEN [ret |-> FALSE, why |-> "InvalidTransition", trace |-> <<>>]
             ELSE [ret |-> TRUE, why |-> "ok", trace |-> <<>>]

\* CanTransition that also runs the current state's exit action when the
\* edge is allowed.
CanTransitionRunsExit(m, to) ==
    IF m.State \notin DOMAIN m.Transitions
    THEN [ret |-> FALSE, why |-> "NoTransitionsDefined", trace |-> <<>>]
    ELSE LET transitions == m.Transitions[m.State]
             i == Scan(transitions, to, 1)
             a == Lookup(m.exitActions, m.State)
         IN  IF i = 0
             THEN [ret |-> FALSE, why |-> "InvalidTransition", trace |-> <<>>]
             ELSE LET g == CheckGuard(transitions[i], i, m.State)
                  IN  [ret |-> g.ok,
                       why |-> IF g.ok THEN "ok" ELSE "GuardRejected",
                       trace |-> IF g.ok /\ a # Nil
                                 THEN g.trace \o <<Ev("exit", a, 0, m.State)>>
                                 ELSE g.trace]

\* CanTransition(to): ret is the returned bool; why names the return
\* statement taken (list missing, loop ran off the end, guard false, or "ok").
CanTransition(m, to) ==
    IF m.State \notin DOMAIN m.Transitions
    THEN [ret |-> FALSE, why |-> "NoTransitionsDefined", trace |-> <<>>]
    ELSE LET transitions == m.Transitions[m.State]
             i == Scan(transitions, to, 1)
         IN  IF i = 0
             THEN [ret |-> FALSE, why |-> "InvalidTransition", trace |-> <<>>]
             ELSE LET g == CheckGuard(transitions[i], i, m.State)
                  IN  [ret |-> g.ok,
                       why |-> IF g.ok THEN "ok" ELSE "GuardRejected",
                       trace |-> g.trace]

----------------------------------------------------------------------------
\* The steps of Transition(to) after the lookup.

\* ExitStep with the exit action's error dropped.
ExitStepIgnoresError(m) ==
    LET a == Lookup(m.exitActions, m.State)
    IN  IF a = Nil THEN [failed |-> FALSE, trace |-> <<>>]
        ELSE [failed |-> FALSE, trace |-> <<Ev("exit", a, 0, m.State)>>]

\* if exitAction := sm.exitActions[sm.State]; exitAction != nil { err := exitAction() }
ExitStep(m) ==
    LET a == Lookup(m.exitActions, m.State)
    IN  IF a = Nil THEN [failed |-> FALSE, trace |-> <<>>]
        ELSE [failed |-> ActionFails(a), trace |-> <<Ev("exit", a, 0, m.State)>>]

\* ActionStep with the transition action's error dropped.
ActionStepIgnoresError(t, i, at) ==
    IF t.Action = Nil THEN [failed |-> FALSE, trace |-> <<>>]
    ELSE [failed |-> FALSE, trace |-> <<Ev("action", t.Action, i, at)>>]

\* if matchedTransition.Action != nil { err := matchedTransition.Action() }
ActionStep(t, i, at) ==
    IF t.Action = Nil THEN [failed |-> FALSE, trace |-> <<>>]
    ELSE [failed |-> ActionFails(t.Action), trace |-> <<Ev("action", t.Action, i, at)>>]

\* Rollback with the restore left out: sm.State keeps the destination.
RollbackKeepsTo(oldState, to) == to

\* sm.State = oldState, the value written back when the entry action fails.
Rollback(oldState, to) == oldState

\* EntryStep that writes sm.State and never calls the entry action.
EntryStepNoCall(m, to) ==
    [State |-> to, failed |-> FALSE, trace |-> <<Ev("write", to, 0, to)>>]

\* EntryStep that calls the entry action before it writes sm.State.
EntryStepCallsFirst(m, to) ==
    LET oldState == m.State
        a == Lookup(m.entryActions, to)
        w == <<Ev("write", to, 0, to)>>
    IN  IF a = Nil
        THEN [State |-> to, failed |-> FALSE, trace |-> w]
        ELSE IF ActionFails(a)
        THEN [State |-> Rollback(oldState, to), failed |-> TRUE,
              trace |-> <<Ev("entry", a, 0, oldState)>> \o w \o
                        <<Ev("write", Rollback(oldState, to), 0, Rollback(oldState, to))>>]
        ELSE [State |-> to, failed |-> FALSE, trace |-> <<Ev("entry", a, 0, oldState)>> \o w]

\* EntryStep whose rollback also runs the entry action of the state restored.
EntryStepReentersOld(m, to) ==
    LET oldState == m.State
        a == Lookup(m.entryActions, to)
        b == Lookup(m.entryActions, oldState)
        w == <<Ev("write", to, 0, to)>>
    IN  IF a = Nil
        THEN [State |-> to, failed |-> FALSE, trace |-> w]
        ELSE IF ActionFails(a)
        THEN [State |-> Rollback(oldState, to), failed |-> TRUE,
              trace |-> w \o <<Ev("entry", a, 0, to),
                               Ev("write", Rollback(oldState, to), 0, Rollback(oldState, to))>>
                          \o (IF b = Nil THEN <<>> ELSE <<Ev("entry", b, 0, oldState)>>)]
        ELSE [State |-> to, failed |-> FALSE, trace |-> w \o <<Ev("entry", a, 0, to)>>]

\* EntryStep that does nothing when the destination is the state held.
EntryStepSkipsSelf(m, to) ==
    LET oldState == m.State
        a == Lookup(m.entryActions, to)
        w == <<Ev("write", to, 0, to)>>
    IN  IF to = oldState
        THEN [State |-> to, failed |-> FALSE, trace |-> <<>>]
        ELSE IF a = Nil
        THEN [State |-> to, failed |-> FALSE, trace |-> w]
        ELSE IF ActionFails(a)
        THEN [State |-> Rollback(oldState, to), failed |-> TRUE,
              trace |-> w \o <<Ev("entry", a, 0, to),
                               Ev("write", Rollback(oldState, to), 0, Rollback(oldState, to))>>]
        ELSE [State |-> to, failed |-> FALSE, trace |-> w \o <<Ev("entry", a, 0, to)>>]

\* oldState := sm.State; sm.State = to; the entry action of `to`; on its
\* failure sm.State = oldState.  Shared by both revisions.
EntryStep(m, to) ==
    LET oldState == m.State
        a == Lookup(m.entryActions, to)
        w == <<Ev("write", to, 0, to)>>
    IN  IF a = Nil
        THEN [State |-> to, failed |-> FALSE, trace |-> w]
        ELSE IF ActionFails(a)
        THEN [State |-> Rollback(oldState, to), failed |-> TRUE,
              trace |-> w \o <<Ev("entry", a, 0, to),
                               Ev("write", Rollback(oldState, to), 0, Rollback(oldState, to))>>]
        ELSE [State |-> to, failed |-> FALSE, trace |-> w \o <<Ev("entry", a, 0, to)>>]

\* What a Transition call leaves: sm.State, the returned error, the return
\* statement taken (why) and what happened inside the call.
Outcome(state, err, why, trace) ==
    [State |-> state, err |-> err, why |-> why, trace |-> trace]

\* Transition with sm.State = to moved up, before the exit action.
TransitionWritesFirst(m, to) ==
    LET can == CanTransition(m, to)
    IN  IF ~can.ret
        THEN Outcome(m.State, Err(ErrInvalidTransition, "from-to"), can.why, can.trace)
        ELSE LET x == ExitStep(m)
                 e == EntryStep(m, to)
                 w == <<e.trace[1]>>
             IN  IF x.failed
                 THEN Outcome(to, Err(ErrExitActionFailed, "cause"),
                              "ExitActionFailed", can.trace \o w \o x.trace)
                 ELSE IF e.failed
                 THEN Outcome(e.State, Err(ErrEntryActionFailed, "cause"),
                              "EntryActionFailed", can.trace \o w \o x.trace \o Tail(e.trace))
                 ELSE Outcome(e.State, NoErr, "ok", can.trace \o w \o x.trace \o Tail(e.trace))

\* Transition(to) of src/state_machine.go.
Transition(m, to) ==
    LET can == CanTransition(m, to)
    IN  IF ~can.ret
        THEN Outcome(m.State, Err(ErrInvalidTransition, "from-to"), can.why, can.trace)
        ELSE LET x == ExitStep(m)
             IN  IF x.failed
                 THEN Outcome(m.State, Err(ErrExitActionFailed, "cause"),
                              "ExitActionFailed", can.trace \o x.trace)
                 ELSE LET e == EntryStep(m, to)
                          tr == can.trace \o x.trace \o e.trace
                      IN  IF e.failed
                          THEN Outcome(e.State, Err(ErrEntryActionFailed, "cause"),
                                       "EntryActionFailed", tr)
                          ELSE Outcome(e.State, NoErr, "ok", tr)

\* Transition(to) of src/cmd/main.go: its own lookup and guard check, and the
\* matched edge's action between the exit action and the write of sm.State.
TransitionA(m, to) ==
    IF m.State \notin DOMAIN m.Transitions
    THEN Outcome(m.State, Err(ErrInvalidTransition, "from-to"), "NoTransitionsDefined", <<>>)
    ELSE
    LET transitions == m.Transitions[m.State]
        i == Scan(transitions, to, 1)
    IN  IF i = 0
        THEN Outcome(m.State, Err(ErrExitActionFailed, "from-to"), "InvalidTransition", <<>>)
        ELSE
        LET matched == transitions[i]
            g == CheckGuard(matched, i, m.State)
        IN  IF ~g.ok
            THEN Outcome(m.State, Err(ErrInvalidTransition, "guard condition failed"),
                         "GuardRejected", g.trace)
            ELSE
            LET x == ExitStep(m)
            IN  IF x.failed
                THEN Outcome(m.State, Err(ErrExitActionFailed, "cause"),
                             "ExitActionFailed", g.trace \o x.trace)
                ELSE
                LET a == ActionStep(matched, i, m.State)
                IN  IF a.failed
                    THEN Outcome(m.State, Err("none", "transition action failed"),
                                 "TransitionActionFailed", g.trace \o x.trace \o a.trace)
                    ELSE
                    LET e == EntryStep(m, to)
                        tr == g.trace \o x.trace \o a.trace \o e.trace
                    IN  IF e.failed
                        THEN Outcome(e.State, Err(ErrEntryActionFailed, "cause"),
                                     "EntryActionFailed", tr)
                        ELSE Outcome(e.State, NoErr, "ok", tr)

\* Reset that leaves sm.State alone.
ResetKeepsState(m) == m.State

\* func (sm *StateMachine) Reset() { sm.State = sm.InitialState }
Reset(m) == m.InitialState
----------------------------------------------------------------------------
\* The size of what the caller has registered: edges, guards, edge actions
\* and per-state actions.
Closures(t) == (IF t.Guard # Nil THEN 1 ELSE 0) + (IF t.Action # Nil THEN 1 ELSE 0)

RECURSIVE ListSize(_, _)
ListSize(l, i) == IF i > Len(l) THEN 0 ELSE 1 + Closures(l[i]) + ListSize(l, i + 1)

RECURSIVE TableSize(_, _)
TableSize(T, S) ==
    IF S = {} THEN 0
    ELSE LET x == CHOOSE y \in S : TRUE IN ListSize(T[x], 1) + TableSize(T, S \ {x})

Size ==
    TableSize(Transitions, DOMAIN Transitions)
    + Cardinality(DOMAIN entryActions) + Cardinality(DOMAIN exitActions)

----------------------------------------------------------------------------
\* The calls in flight when one caller makes every call and each call runs
\* to its return before the next starts: none.
NoThreads == [lock |-> "unused", thread |-> <<>>]

\* NewStateMachine(initialState)
Init ==
    /\ calls = NoThreads
    /\ rev \in Revisions
    /\ \E initialState \in States :
          /\ State = initialState
          /\ InitialState = initialState
    /\ Transitions = [s \in {} |-> <<>>]
    /\ entryActions = EmptyMap
    /\ exitActions = EmptyMap
    /\ last = NoCall

\* sm.AddTransition(from, to, guard) of src/state_machine.go
CallAddTransition(from, to, guard) ==
    /\ rev = "guard"
    /\ Size + 1 + Closures(TransitionRec(to, guard, Nil)) <= MaxSize
    /\ Transitions' = AddTransition(Transitions, from, to, guard, Nil)
    /\ last' = NoCall
    /\ UNCHANGED <<rev, calls, State, InitialState, entryActions, exitActions>>

\* sm.AddTransition(from, to, guard, action) of src/cmd/main.go
CallAddTransitionA(from, to, guard, action) ==
    /\ rev = "action"
    /\ Size + 1 + Closures(TransitionRec(to, guard, action)) <= MaxSize
    /\ Transitions' = AddTransition(Transitions, from, to, guard, action)
    /\ last' = NoCall
    /\ UNCHANGED <<rev, calls, State, InitialState, entryActions, exitActions>>

\* sm.AddSimpleTransition(from, to): AddTransition with nil guard (and action)
CallAddSimpleTransition(from, to) ==
    /\ Size + 1 <= MaxSize
    /\ Transitions' = AddTransition(Transitions, from, to, Nil, Nil)
    /\ last' = NoCall
    /\ UNCHANGED <<rev, calls, State, InitialState, entryActions, exitActions>>

\* sm.SetEntryAction(state, action)
CallSetEntryAction(state, action) ==
    /\ state \in DOMAIN entryActions \/ Size + 1 <= MaxSize
    /\ entryActions' = SetAction(entryActions, state, action)
    /\ last' = NoCall
    /\ UNCHANGED <<rev, calls, State, Transitions, InitialState, exitActions>>

\* sm.SetExitAction(state, action)
CallSetExitAction(state, action) ==
    /\ state \in DOMAIN exitActions \/ Size + 1 <= MaxSize
    /\ exitActions' = SetAction(exitActions, state, action)
    /\ last' = NoCall
    /\ UNCHANGED <<rev, calls, State, Transitions, InitialState, entryActions>>

\* sm.CanTransition(to)
CallCanTransition(to) ==
    LET r == CanTransition(sm, to)
    IN  /\ last' = [op |-> "CanTransition", to |-> to, pre |-> State, ret |-> r.ret,
                    err |-> NoErr, why |-> r.why, trace |-> r.trace]
        /\ UNCHANGED <<rev, calls, State, Transitions, InitialState, entryActions, exitActions>>

\* Transition that also makes the state it ends in the initial state.
CallTransitionRebases(to) ==
    LET r == IF rev = "guard" THEN Transition(sm, to) ELSE TransitionA(sm, to)
    IN  /\ State' = r.State
        /\ InitialState' = r.State
        /\ last' = [op |-> "Transition", to |-> to, pre |-> State, ret |-> r.err = NoErr,
                    err |-> r.err, why |-> r.why, trace |-> r.trace]
        /\ UNCHANGED <<rev, calls, Transitions, entryActions, exitActions>>

\* sm.Transition(to), in the engine's revision
CallTransition(to) ==
    LET r == IF rev = "guard" THEN Transition(sm, to) ELSE TransitionA(sm, to)
    IN  /\ State' = r.State
        /\ last' = [op |-> "Transition", to |-> to, pre |-> State, ret |-> r.err = NoErr,
                    err |-> r.err, why |-> r.why, trace |-> r.trace]
        /\ UNCHANGED <<rev, calls, Transitions, InitialState, entryActions, exitActions>>

\* sm.Reset()
CallReset ==
    /\ State' = Reset(sm)
    /\ last' = [op |-> "Reset", to |-> Nil, pre |-> State, ret |-> FALSE,
                err |-> NoErr, why |-> Nil, trace |-> <<>>]
    /\ UNCHANGED <<rev, calls, Transitions, InitialState, entryActions, exitActions>>

Next ==
    \/ \E from \in States, to \in States, guard \in Guards \cup {Nil} :
          CallAddTransition(from, to, guard)
    \/ \E from \in States, to \in States, guard \in Guards \cup {Nil},
          action \in Actions \cup {Nil} :
          CallAddTransitionA(from, to, guard, action)
    \/ \E from \in States, to \in States : CallAddSimpleTransition(from, to)
    \/ \E state \in States, action \in Actions : CallSetEntryAction(state, action)
    \/ \E state \in States, action \in Actions : CallSetExitAction(state, action)
    \/ \E to \in States : CallCanTransition(to)
    \/ \E to \in States : CallTransition(to)
    \/ CallReset

Spec == Init /\ [][Next]_vars
----------------------------------------------------------------------------
\* The plain engine (package lollipop of src/unnamed/part_000: a state and a
\* table of destination lists, no guards, no actions, no Reset) and the trip
\* status program of src/unnamed/part_002 that drives it.  rev = "lollipop".

TripStatusScheduled == "SCHEDULED"
TripStatusInProgress == "IN_PROGRESS"
TripStatusCompleted == "COMPLETED"
TripStatusCancelled == "CANCELLED"
TripStatuses ==
    {TripStatusScheduled, TripStatusInProgress, TripStatusCompleted, TripStatusCancelled}

\* The edges the trip program registers.
TripEdges ==
    { <<TripStatusScheduled, TripStatusInProgress>>,
      <<TripStatusScheduled, TripStatusCancelled>>,
      <<TripStatusInProgress, TripStatusCompleted>> }

\* AddTransition(from, to): sm.Transitions[from] = append(sm.Transitions[from], to)
TripAddTransition(T, from, to) ==
    LET T1 == IF from \notin DOMAIN T THEN Store(T, from, <<>>) ELSE T
    IN  Store(T1, from, Append(T1[from], to))

\* CanTransition that accepts a destination listed for any state.
TripCanTransitionFromAnywhere(m, to) ==
    \E s \in DOMAIN m.Transitions : \E i \in DOMAIN m.Transitions[s] : m.Transitions[s][i] = to

\* CanTransition(to): false without a list for sm.State, else whether the
\* list holds `to`.
TripCanTransition(m, to) ==
    IF m.State \notin DOMAIN m.Transitions THEN FALSE
    ELSE \E i \in DOMAIN m.Transitions[m.State] : m.Transitions[m.State][i] = to

\* Transition(to): the error of fmt.Errorf (no sentinel) when CanTransition
\* says no, else sm.State = to.
TripTransition(m, to) ==
    IF ~TripCanTransition(m, to)
    THEN Outcome(m.State, Err("none", "invalid transition from-to"), "InvalidTransition", <<>>)
    ELSE Outcome(to, NoErr, "ok", <<Ev("write", to, 0, to)>>)

\* The number of edges in the plain engine's table.
RECURSIVE TripSize(_, _)
TripSize(T, S) ==
    IF S = {} THEN 0
    ELSE LET x == CHOOSE y \in S : TRUE IN Len(T[x]) + TripSize(T, S \ {x})

\* stateMachine := lollipop.NewStateMachine(TripStatusScheduled)
InitTrip ==
    /\ rev = "lollipop"
    /\ calls = NoThreads
    /\ State = TripStatusScheduled
    /\ InitialState = Nil
    /\ Transitions = [s \in {} |-> <<>>]
    /\ entryActions = EmptyMap
    /\ exitActions = EmptyMap
    /\ last = NoCall

\* stateMachine.AddTransition(from, to)
CallTripAddTransition(from, to) ==
    /\ rev = "lollipop"
    /\ TripSize(Transitions, DOMAIN Transitions) + 1 <= MaxSize
    /\ Transitions' = TripAddTransition(Transitions, from, to)
    /\ last' = NoCall
    /\ UNCHANGED <<rev, calls, State, InitialState, entryActions, exitActions>>

\* stateMachine.CanTransition(to)
CallTripCanTransition(to) ==
    /\ rev = "lollipop"
    /\ last' = [op |-> "CanTransition", to |-> to, pre |-> State,
                ret |-> TripCanTransition(sm, to), err |-> NoErr,
                why |-> IF TripCanTransition(sm, to) THEN "ok" ELSE "InvalidTransition",
                trace |-> <<>>]
    /\ UNCHANGED <<rev, calls, State, Transitions, InitialState, entryActions, exitActions>>

\* stateMachine.Transition(to)
CallTripTransition(to) ==
    /\ rev = "lollipop"
    /\ LET r == TripTransition(sm, to)
       IN  /\ State' = r.State
           /\ last' = [op |-> "Transition", to |-> to, pre |-> State, ret |-> r.err = NoErr,
                       err |-> r.err, why |-> r.why, trace |-> r.trace]
    /\ UNCHANGED <<rev, calls, Transitions, InitialState, entryActions, exitActions>>

\* The calls on the plain engine: the trip program's registrations in any
\* order and number, requests for any status.
NextTrip ==
    \/ \E e \in TripEdges : CallTripAddTransition(e[1], e[2])
    \/ \E to \in TripStatuses : CallTripCanTransition(to)
    \/ \E to \in TripStatuses : CallTripTransition(to)

\* An engine of any of the three kinds.
InitAny == Init \/ InitTrip

NextAny ==
    \/ rev \in Revisions /\ Next
    \/ NextTrip

SpecTrip == InitAny /\ [][NextAny]_vars
----------------------------------------------------------------------------
\* Two goroutines calling Transition of src/state_machine.go on one engine.
\* The engine has no lock, so a call is no longer one step: each statement
\* of Transition that reads or writes sm.State is a step of its own, and the
\* steps of the two calls interleave.  calls.thread[t] is goroutine t's
\* position in its call (pc), its argument, its local oldState and the error
\* it returned.  calls.lock is the caller's own mutex around the call: "unused"
\* when the callers take none, else "free" or the goroutine holding it.
\* Unsynchronised, the accesses of sm.State are a data race; the
\* interleavings of whole statements are among the executions the Go memory
\* model allows for it.

Threads == {"t1", "t2"}
RaceStates == {"A", "B", "C"}

\* A goroutine that has not called yet.
Idle == [pc |-> "idle", to |-> Nil, oldState |-> Nil, err |-> NoErr]

\* The tables registered before the goroutines start: A -> B and A -> C, and
\* possibly C -> B.
RaceTables ==
    LET fromA == <<TransitionRec("B", Nil, Nil), TransitionRec("C", Nil, Nil)>>
    IN  { Store([s \in {} |-> <<>>], "A", fromA),
          Store(Store([s \in {} |-> <<>>], "A", fromA), "C", <<TransitionRec("B", Nil, Nil)>>) }

\* NewStateMachine("A"), the registrations, and the callers' choice to guard
\* their calls with a mutex or not.
InitRace ==
    /\ rev = "guard"
    /\ State = "A"
    /\ InitialState = "A"
    /\ Transitions \in RaceTables
    /\ \E a \in Actions \cup {Nil} :
          entryActions = IF a = Nil THEN EmptyMap ELSE SetAction(EmptyMap, "B", a)
    /\ \E a \in Actions \cup {Nil} :
          exitActions = IF a = Nil THEN EmptyMap ELSE SetAction(EmptyMap, "A", a)
    /\ last = NoCall
    /\ \E lock \in {"unused", "free"} :
          calls = [lock |-> lock, thread |-> [t \in Threads |-> Idle]]

\* Goroutine t moves on inside its call.
Goto(t, c) == calls' = [calls EXCEPT !.thread[t] = c]

\* Goroutine t's call returns err; the caller releases its mutex if it took it.
Return(t, err) ==
    calls' = [lock |-> IF calls.lock = t THEN "free" ELSE calls.lock,
              thread |-> [calls.thread EXCEPT ![t] = [@ EXCEPT !.pc = "done", !.err = err]]]

\* go sm.Transition(to): the caller takes its mutex, if it uses one.
StartTransition(t, to) ==
    /\ calls.thread[t].pc = "idle"
    /\ calls.lock \in {"unused", "free"}
    /\ calls' = [lock |-> IF calls.lock = "free" THEN t ELSE calls.lock,
                 thread |-> [calls.thread EXCEPT ![t] = [Idle EXCEPT !.pc = "can", !.to = to]]]
    /\ UNCHANGED <<rev, State, Transitions, InitialState, entryActions, exitActions, last>>

\* if !sm.CanTransition(to) { return ErrInvalidTransition }
StepCanTransition(t) ==
    LET c == calls.thread[t]
    IN  /\ c.pc = "can"
        /\ IF CanTransition(sm, c.to).ret
           THEN Goto(t, [c EXCEPT !.pc = "exit"])
           ELSE Return(t, Err(ErrInvalidTransition, "from-to"))
        /\ UNCHANGED <<rev, State, Transitions, InitialState, entryActions, exitActions, last>>

\* the exit action of sm.State; return ErrExitActionFailed when it fails
StepExitAction(t) ==
    LET c == calls.thread[t]
    IN  /\ c.pc = "exit"
        /\ IF ExitStep(sm).failed
           THEN Return(t, Err(ErrExitActionFailed, "cause"))
           ELSE Goto(t, [c EXCEPT !.pc = "read"])
        /\ UNCHANGED <<rev, State, Transitions, InitialState, entryActions, exitActions, last>>

\* oldState := sm.State, taken from the constructor's state instead.
StepOldStateTakesInitial(t) ==
    LET c == calls.thread[t]
    IN  /\ c.pc = "read"
        /\ Goto(t, [c EXCEPT !.pc = "write", !.oldState = InitialState])
        /\ UNCHANGED <<rev, State, Transitions, InitialState, entryActions, exitActions, last>>

\* oldState := sm.State
StepOldState(t) ==
    LET c == calls.thread[t]
    IN  /\ c.pc = "read"
        /\ Goto(t, [c EXCEPT !.pc = "write", !.oldState = State])
        /\ UNCHANGED <<rev, State, Transitions, InitialState, entryActions, exitActions, last>>

\* sm.State = to
StepWrite(t) ==
    LET c == calls.thread[t]
    IN  /\ c.pc = "write"
        /\ State' = c.to
        /\ Goto(t, [c EXCEPT !.pc = "entry"])
        /\ UNCHANGED <<rev, Transitions, InitialState, entryActions, exitActions, last>>

\* the entry action of `to`; return nil unless it fails
StepEntryAction(t) ==
    LET c == calls.thread[t]
        a == Lookup(entryActions, c.to)
    IN  /\ c.pc = "entry"
        /\ IF a # Nil /\ ActionFails(a)
           THEN Goto(t, [c EXCEPT !.pc = "rollback"])
           ELSE Return(t, NoErr)
        /\ UNCHANGED <<rev, State, Transitions, InitialState, entryActions, exitActions, last>>

\* sm.State = oldState; return ErrEntryActionFailed
StepRollback(t) ==
    LET c == calls.thread[t]
    IN  /\ c.pc = "rollback"
        /\ State' = Rollback(c.oldState, c.to)
        /\ Return(t, Err(ErrEntryActionFailed, "cause"))
        /\ UNCHANGED <<rev, Transitions, InitialState, entryActions, exitActions, last>>

NextRace ==
    \E t \in Threads :
        \/ \E to \in RaceStates : StartTransition(t, to)
        \/ StepCanTransition(t)
        \/ StepExitAction(t)
        \/ StepOldState(t)
        \/ StepWrite(t)
        \/ StepEntryAction(t)
        \/ StepRollback(t)

SpecRace == InitRace /\ [][NextRace]_vars
----------------------------------------------------------------------------
\* Vocabulary of the properties.

\* The last engine call was Transition(last.to), made with sm.State = last.pre.
Transitioned == last.op = "Transition"
Failed == Transitioned /\ last.err # NoErr
Succeeded == Transitioned /\ last.err = NoErr

\* The exit / transition / entry action invocations of the last call, in order.
ActionEvents == SelectSeq(last.trace, LAMBDA e : e.ev \in {"exit", "action", "entry"})
\* The writes of sm.State made by the last call, in order.
Writes == SelectSeq(last.trace, LAMBDA e : e.ev = "write")

\* The registered edges from state s to state t, by position in s's list.
Edges(s, t) ==
    IF s \in DOMAIN Transitions
    THEN {i \in DOMAIN Transitions[s] : Transitions[s][i].To = t}
    ELSE {}
\* The first registered edge from s to t (when Edges(s, t) is not empty).
FirstEdge(s, t) ==
    Transitions[s][CHOOSE i \in Edges(s, t) : \A j \in Edges(s, t) : i <= j]

----------------------------------------------------------------------------
\* C1: when Transition(to) fails with the entry-action error, sm.State is
\* again what it was before the call: the call wrote `to`, ran the entry
\* action and wrote the old state back before returning.
C1_EntryFailureRollsBack ==
    (Transitioned /\ last.err.kind = ErrEntryActionFailed) =>
        /\ State = last.pre
        /\ Len(Writes) = 2
        /\ Writes[1].id = last.to
        /\ Writes[2].id = last.pre
        /\ last.trace[Len(last.trace)] = Writes[2]

C1_Witness ==
    /\ Transitioned
    /\ last.err.kind = ErrEntryActionFailed
    /\ last.to # last.pre
    /\ State = last.pre

\* C2: when Transition(to) returns an error that is not the entry-action
\* error, sm.State is what it was before the call and the call never wrote it.
C2_OtherFailuresNeverWrite ==
    (Failed /\ last.err.kind # ErrEntryActionFailed) =>
        /\ State = last.pre
        /\ Writes = <<>>

C2_Witness ==
    /\ Failed
    /\ last.why = "ExitActionFailed"
    /\ last.to # last.pre
    /\ State = last.pre
    /\ Lookup(entryActions, last.to) # Nil

\* The action invocations a successful Transition(last.to) from last.pre
\* owes: exit of the old state, the first matching edge's action, entry of
\* the destination, each only if registered.
C3_Expected ==
    LET x == Lookup(exitActions, last.pre)
        t == FirstEdge(last.pre, last.to)
        n == Lookup(entryActions, last.to)
    IN  (IF x # Nil THEN <<[ev |-> "exit", id |-> x]>> ELSE <<>>)
        \o (IF t.Action # Nil THEN <<[ev |-> "action", id |-> t.Action]>> ELSE <<>>)
        \o (IF n # Nil THEN <<[ev |-> "entry", id |-> n]>> ELSE <<>>)

\* C3: when Transition(to) returns nil, sm.State = to and the call invoked the
\* exit action of the old state (if registered), then the first matching
\* edge's action (if it has one), then the entry action of `to` (if
\* registered), each exactly once and nothing else.
C3_SuccessRunsActionsInOrder ==
    Succeeded =>
        /\ State = last.to
        /\ Edges(last.pre, last.to) # {}
        /\ [i \in DOMAIN ActionEvents |-> [ev |-> ActionEvents[i].ev, id |-> ActionEvents[i].id]]
              = C3_Expected

C3_Witness ==
    /\ Succeeded
    /\ State = last.to
    /\ last.to # last.pre
    /\ Len(ActionEvents) = 3

\* The last call was a Transition whose first matching edge has a guard
\* that returns false.
GuardRejects ==
    /\ Transitioned
    /\ Edges(last.pre, last.to) # {}
    /\ FirstEdge(last.pre, last.to).Guard # Nil
    /\ ~GuardHolds(FirstEdge(last.pre, last.to).Guard)

\* C4 (as claimed): when the first registered edge from the current state to
\* `to` has a guard that returns false, Transition(to) fails with an error
\* kind of its own, one that is not the kind reported for an invalid
\* transition; no exit, transition or entry action runs and sm.State is
\* untouched.
C4_Original ==
    GuardRejects =>
        /\ Failed
        /\ last.err.kind # ErrInvalidTransition
        /\ ActionEvents = <<>>
        /\ State = last.pre /\ Writes = <<>>

\* C4 (amended): in that case Transition(to) fails with ErrInvalidTransition,
\* the sentinel that also reports a state without outgoing edges; no exit,
\* transition or entry action runs and sm.State is untouched.
C4_GuardRejectedIsInvalidTransition ==
    GuardRejects =>
        /\ Failed
        /\ last.err.kind = ErrInvalidTransition
        /\ ActionEvents = <<>>
        /\ State = last.pre /\ Writes = <<>>

C4_Witness ==
    /\ GuardRejects
    /\ Failed
    /\ last.to # last.pre
    /\ Lookup(exitActions, last.pre) # Nil
    /\ Lookup(entryActions, last.to) # Nil

\* C5: when the current state has outgoing edges but none to `to`,
\* Transition(to) fails with ErrInvalidTransition and no other kind, runs no
\* action and leaves sm.State unchanged.
C5_NoMatchingEdgeIsInvalidTransition ==
    (/\ Transitioned
     /\ last.pre \in DOMAIN Transitions
     /\ Edges(last.pre, last.to) = {}) =>
        /\ Failed
        /\ last.err.kind = ErrInvalidTransition
        /\ ActionEvents = <<>>
        /\ State = last.pre /\ Writes = <<>>

\* The last call was a Transition from a state without a transition list.
NoOutgoingEdges == Transitioned /\ last.pre \notin DOMAIN Transitions

\* C6 (as claimed): when the current state has no outgoing edges,
\* Transition(to) fails with a kind the caller can tell from the one reported
\* for a missing edge (ErrInvalidTransition); no action runs and sm.State is
\* unchanged.
C6_Original ==
    NoOutgoingEdges =>
        /\ Failed
        /\ last.err.kind # ErrInvalidTransition
        /\ ActionEvents = <<>>
        /\ State = last.pre /\ Writes = <<>>

\* C6 (amended): in that case Transition(to) fails, for every `to`, with
\* ErrInvalidTransition and the "from ... to ..." message; no closure is
\* called and sm.State is unchanged.
C6_NoEdgesIsInvalidTransition ==
    NoOutgoingEdges =>
        /\ Failed
        /\ last.err = Err(ErrInvalidTransition, "from-to")
        /\ last.trace = <<>>
        /\ State = last.pre

C6_Witness ==
    /\ NoOutgoingEdges
    /\ Failed
    /\ last.to # last.pre
    /\ Lookup(exitActions, last.pre) # Nil
    /\ Lookup(entryActions, last.to) # Nil
    /\ DOMAIN Transitions # {}

\* What Transition(to) would do if called now, in the engine's revision.
TransitionNow(to) == IF rev = "guard" THEN Transition(sm, to) ELSE TransitionA(sm, to)

\* C7: CanTransition(to) returns true exactly when a Transition(to) called
\* right after it, on the same engine with the same guard verdicts, gets past
\* the lookup and the guard.
C7_CanTransitionPredictsTransition ==
    last.op = "CanTransition" =>
        (last.ret <=>
            TransitionNow(last.to).why \notin
                {"NoTransitionsDefined", "InvalidTransition", "GuardRejected"})

C7_Witness ==
    /\ last.op = "CanTransition"
    /\ rev = "action"
    /\ last.ret
    /\ Len(last.trace) = 1
    /\ TransitionNow(last.to).why = "ok"

\* C8: CanTransition(to) changes no field of the engine, invokes no exit,
\* transition or entry action, and asked again returns the same.
C8_CanTransitionIsReadOnly ==
    [][last'.op = "CanTransition" =>
          /\ UNCHANGED <<State, InitialState, Transitions, entryActions, exitActions>>
          /\ SelectSeq(last'.trace, LAMBDA e : e.ev # "guard") = <<>>
          /\ (last.op = "CanTransition" /\ last.to = last'.to) => last'.ret = last.ret
      ]_vars

C8_Witness ==
    /\ last.op = "CanTransition"
    /\ last.ret
    /\ last.to # State
    /\ Lookup(exitActions, State) # Nil
    /\ Lookup(entryActions, last.to) # Nil

\* The last call asked for a destination that has two or more edges from
\* the state it was made in.
Duplicated == last.op \in {"CanTransition", "Transition"} /\ Cardinality(Edges(last.pre, last.to)) >= 2

\* C9: with several edges registered for the same from and to, CanTransition
\* and Transition consult the first one only: its guard decides, no other
\* edge's guard or action is called, and on success the action that ran is
\* the first edge's.
C9_FirstEdgeGoverns ==
    Duplicated =>
        LET first == CHOOSE i \in Edges(last.pre, last.to) : \A j \in Edges(last.pre, last.to) : i <= j
            t == Transitions[last.pre][first]
            passes == t.Guard = Nil \/ GuardHolds(t.Guard)
            called == SelectSeq(last.trace, LAMBDA e : e.ev \in {"guard", "action"})
        IN  /\ last.op = "CanTransition" => last.ret = passes
            /\ (Transitioned /\ ~passes) => (Failed /\ State = last.pre)
            /\ (Transitioned /\ passes) => last.why # "GuardRejected"
            /\ \A k \in DOMAIN called :
                  /\ called[k].idx = first
                  /\ called[k].id = IF called[k].ev = "guard" THEN t.Guard ELSE t.Action
            /\ (Succeeded /\ t.Action # Nil) =>
                  \E k \in DOMAIN called : called[k].ev = "action"

C9_Witness ==
    /\ last.op = "CanTransition"
    /\ Cardinality(Edges(last.pre, last.to)) >= 2
    /\ ~last.ret
    /\ \E j \in Edges(last.pre, last.to) : Transitions[last.pre][j].Guard = Nil

\* C10: the constructor leaves sm.State = s, InitialState never changes, and
\* Reset() at any later point sets sm.State = s, calls no closure and leaves
\* the transition table and both action maps as they are.
C10_ResetRestoresInitialState ==
    /\ State = InitialState
    /\ [][/\ InitialState' = InitialState
          /\ last'.op = "Reset" =>
                /\ State' = InitialState
                /\ last'.trace = <<>>
                /\ UNCHANGED <<Transitions, entryActions, exitActions>>
        ]_vars

C10_Witness ==
    /\ last.op = "Reset"
    /\ last.pre # InitialState
    /\ State = InitialState
    /\ Lookup(exitActions, last.pre) # Nil
    /\ Lookup(entryActions, InitialState) # Nil
\* The last call was a Transition whose edge exists and whose guard, if any,
\* lets it pass.
PassedGuard ==
    /\ Transitioned
    /\ Edges(last.pre, last.to) # {}
    /\ LET g == FirstEdge(last.pre, last.to).Guard IN g = Nil \/ GuardHolds(g)

\* ... and the exit action registered for the state it was made in fails.
ExitFails == PassedGuard /\ ActionFails(Lookup(exitActions, last.pre))

\* C11: when the exit action registered for the current state returns an
\* error, Transition(to) fails with ErrExitActionFailed wrapping the cause;
\* the exit action is the only action invoked (neither the edge's action
\* nor the entry action of `to` runs) and sm.State is never written.
C11_ExitFailureAborts ==
    ExitFails =>
        /\ Failed
        /\ last.err = Err(ErrExitActionFailed, "cause")
        /\ [i \in DOMAIN ActionEvents |-> ActionEvents[i].ev] = <<"exit">>
        /\ ActionEvents[1].id = Lookup(exitActions, last.pre)
        /\ Writes = <<>>
        /\ State = last.pre

C11_Witness ==
    /\ ExitFails
    /\ Failed
    /\ last.to # last.pre
    /\ FirstEdge(last.pre, last.to).Action # Nil
    /\ Lookup(entryActions, last.to) # Nil

\* ... the exit action, if any, succeeds and the edge's own action fails.
EdgeActionFails ==
    /\ PassedGuard
    /\ ~ActionFails(Lookup(exitActions, last.pre))
    /\ ActionFails(FirstEdge(last.pre, last.to).Action)

\* C12: when the matched edge's own action returns an error, Transition(to)
\* fails with an error that wraps none of the three sentinels ("transition
\* action failed: ..."), which no other failure returns; the action ran
\* after the exit action and before any write of sm.State, the entry action
\* of `to` is not invoked and sm.State is unchanged.
C12_EdgeActionFailureAborts ==
    /\ EdgeActionFails =>
          /\ Failed
          /\ last.err = Err("none", "transition action failed")
          /\ [i \in DOMAIN ActionEvents |-> ActionEvents[i].ev]
                = (IF Lookup(exitActions, last.pre) # Nil THEN <<"exit">> ELSE <<>>)
                  \o <<"action">>
          /\ ActionEvents[Len(ActionEvents)].id = FirstEdge(last.pre, last.to).Action
          /\ Writes = <<>>
          /\ State = last.pre
    /\ (Failed /\ ~EdgeActionFails) =>
          last.err.kind \in {ErrInvalidTransition, ErrExitActionFailed, ErrEntryActionFailed}

C12_Witness ==
    /\ EdgeActionFails
    /\ Failed
    /\ last.to # last.pre
    /\ Lookup(exitActions, last.pre) # Nil
    /\ Lookup(entryActions, last.to) # Nil
\* The destinations of the registered edges.
Destinations ==
    UNION {{Transitions[s][i].To : i \in DOMAIN Transitions[s]} : s \in DOMAIN Transitions}

\* C13: sm.State is always the constructor's initial state or the destination
\* of a registered edge; it changes only by Reset(), to the initial state, or
\* by a successful Transition(to), to the destination of an edge registered
\* from the state it leaves.
C13_StateIsInitialOrFollowedEdge ==
    /\ [](State \in {InitialState} \cup Destinations)
    /\ [][State' # State =>
            \/ last'.op = "Reset" /\ State' = InitialState
            \/ /\ last'.op = "Transition" /\ last'.err = NoErr
               /\ State' = last'.to
               /\ Edges(State, State') # {}
        ]_vars

C13_Witness ==
    /\ Succeeded
    /\ State = last.to
    /\ State # InitialState
    /\ Edges(last.pre, State) # {}
\* The list registered for state s, empty when s has none.
ListOf(T, s) == IF s \in DOMAIN T THEN T[s] ELSE <<>>

\* Some AddTransition / AddSimpleTransition call with these arguments is
\* this step.
Adds(from, to, guard, action) ==
    \/ action = Nil /\ CallAddTransition(from, to, guard)
    \/ CallAddTransitionA(from, to, guard, action)
    \/ guard = Nil /\ action = Nil /\ CallAddSimpleTransition(from, to)

\* C14: the transition table is append-only.  AddTransition(from, to, ...)
\* puts exactly one record at the end of from's list, also when the list
\* already holds an identical record, and leaves every other list alone;
\* any step that changes the table is such an append, so no call removes or
\* reorders a record.
C14_TableIsAppendOnly ==
    [][/\ \A from \in States, to \in States, guard \in Guards \cup {Nil},
             action \in Actions \cup {Nil} :
             Adds(from, to, guard, action) =>
                /\ DOMAIN Transitions' = DOMAIN Transitions \cup {from}
                /\ Transitions'[from]
                      = Append(ListOf(Transitions, from), TransitionRec(to, guard, action))
                /\ \A s \in DOMAIN Transitions \ {from} : Transitions'[s] = Transitions[s]
       /\ Transitions' # Transitions =>
             /\ last'.op = "none"
             /\ \E from \in States :
                   /\ DOMAIN Transitions' = DOMAIN Transitions \cup {from}
                   /\ Len(Transitions'[from]) = Len(ListOf(Transitions, from)) + 1
                   /\ SubSeq(Transitions'[from], 1, Len(Transitions'[from]) - 1)
                         = ListOf(Transitions, from)
                   /\ \A s \in DOMAIN Transitions \ {from} : Transitions'[s] = Transitions[s]
      ]_vars

\* An identical edge registered twice is kept twice.
C14_Witness ==
    \E s \in DOMAIN Transitions :
        /\ Len(Transitions[s]) >= 3
        /\ Transitions[s][3] = Transitions[s][1]
        /\ Transitions[s][2] # Transitions[s][1]
\* The invocations of one kind (exit / entry) made by the last call.
Invocations(kind) == SelectSeq(last.trace, LAMBDA e : e.ev = kind)

\* Map m2 is map m1 with key k set to v and every other key as it was.
Replaced(m1, m2, k, v) ==
    /\ DOMAIN m2 = DOMAIN m1 \cup {k}
    /\ m2[k] = v
    /\ \A x \in DOMAIN m1 \ {k} : m2[x] = m1[x]

\* C15: SetEntryAction / SetExitAction replace, they do not accumulate.
\* After SetEntryAction(s, a) the entry action of s is a, whatever was
\* registered for s before; the entry actions of the other states and all
\* exit actions are as they were (and the same for SetExitAction).  A
\* transition invokes, at most once each, the exit action currently
\* registered for the state it leaves and the entry action currently
\* registered for the state it enters, and no other.
C15_SetActionReplaces ==
    /\ [](Transitioned =>
            /\ Len(Invocations("exit")) <= 1
            /\ Len(Invocations("entry")) <= 1
            /\ \A i \in DOMAIN Invocations("exit") :
                  /\ Invocations("exit")[i].id = Lookup(exitActions, last.pre)
                  /\ Invocations("exit")[i].at = last.pre
            /\ \A i \in DOMAIN Invocations("entry") :
                  /\ Invocations("entry")[i].id = Lookup(entryActions, last.to)
                  /\ Invocations("entry")[i].at = last.to)
    /\ [][\A state \in States, action \in Actions :
            /\ CallSetEntryAction(state, action) =>
                  /\ Replaced(entryActions, entryActions', state, action)
                  /\ exitActions' = exitActions
            /\ CallSetExitAction(state, action) =>
                  /\ Replaced(exitActions, exitActions', state, action)
                  /\ entryActions' = entryActions
         ]_vars

\* A transition between two states that both have an entry action, the two
\* closures differing, the left state also having an exit action: one exit
\* and one entry invocation, each of the closure registered for its own state.
C15_Witness ==
    /\ Succeeded /\ last.to # last.pre
    /\ {last.pre, last.to} \subseteq DOMAIN entryActions
    /\ entryActions[last.to] # entryActions[last.pre]
    /\ last.pre \in DOMAIN exitActions
    /\ Len(Invocations("exit")) = 1 /\ Len(Invocations("entry")) = 1
    /\ Invocations("entry")[1].id = entryActions[last.to]
\* The value of sm.State when event k of the last call happened: the value
\* of the latest write before it, the value at the call when there is none.
RECURSIVE StateAt(_)
StateAt(k) ==
    IF k <= 1 THEN last.pre
    ELSE IF last.trace[k - 1].ev = "write" THEN last.trace[k - 1].id
    ELSE StateAt(k - 1)

\* C16: what the closures of a Transition(to) from state s observe.  The exit
\* action and the transition action run while sm.State is still s, the entry
\* action runs while sm.State is already `to`.  The call writes sm.State at
\* most twice: `to`, and then s again exactly when the entry action failed.
C16_ActionsObserveState ==
    Transitioned =>
        /\ \A k \in DOMAIN last.trace :
              /\ last.trace[k].ev \in {"exit", "action"} => StateAt(k) = last.pre
              /\ last.trace[k].ev = "entry" => StateAt(k) = last.to
        /\ [i \in DOMAIN Writes |-> Writes[i].id]
              = IF last.why = "EntryActionFailed" THEN <<last.to, last.pre>>
                ELSE IF Succeeded THEN <<last.to>>
                ELSE <<>>

\* A transition to another state that ran an exit action, a transition
\* action and an entry action.
C16_Witness ==
    /\ Transitioned /\ last.to # last.pre
    /\ [i \in DOMAIN ActionEvents |-> ActionEvents[i].ev] = <<"exit", "action", "entry">>
    /\ Writes # <<>>
\* The last call is a Transition whose entry action failed.
EntryFailed == Transitioned /\ last.why = "EntryActionFailed"

\* What a call whose entry action failed has done before the rollback: the
\* exit action of the state left (when it has one), the action of the edge
\* followed (when it has one), the write of the destination and the entry
\* action of the destination.
BeforeRollback ==
    LET x == Lookup(exitActions, last.pre)
        t == FirstEdge(last.pre, last.to)
        i == CHOOSE j \in Edges(last.pre, last.to) : \A k \in Edges(last.pre, last.to) : j <= k
    IN  (IF x = Nil THEN <<>> ELSE <<Ev("exit", x, 0, last.pre)>>)
        \o (IF t.Action = Nil THEN <<>> ELSE <<Ev("action", t.Action, i, last.pre)>>)
        \o <<Ev("write", last.to, 0, last.to),
             Ev("entry", Lookup(entryActions, last.to), 0, last.to)>>

\* C17: the rollback after a failed entry action restores sm.State and
\* nothing else.  The exit action of the old state and the action of the edge
\* have each run once and stay run; the rollback is the single write of the
\* old state, the last thing the call does: no closure runs after it, the old
\* state's entry action in particular is not invoked.
C17_RollbackRestoresOnlyState ==
    EntryFailed =>
        /\ SelectSeq(last.trace, LAMBDA e : e.ev # "guard")
              = BeforeRollback \o <<Ev("write", last.pre, 0, last.pre)>>
        /\ State = last.pre

\* A failed entry action after an exit action ran, the state restored having
\* an entry action of its own.
C17_Witness ==
    /\ EntryFailed /\ last.to # last.pre
    /\ Lookup(exitActions, last.pre) # Nil
    /\ Lookup(entryActions, last.pre) # Nil
    /\ State = last.pre
\* The guard calls made by the last call, in order.
GuardCalls == SelectSeq(last.trace, LAMBDA e : e.ev = "guard")

\* C18: one CanTransition(to) or Transition(to) call evaluates at most one
\* guard, exactly once: the guard of the first edge from sm.State to `to`,
\* when that edge has one.  It evaluates none when no edge matches, and the
\* guards of the other edges are never called.
C18_AtMostOneGuardCall ==
    last.op \in {"CanTransition", "Transition"} =>
        IF Edges(last.pre, last.to) = {} THEN GuardCalls = <<>>
        ELSE LET i == CHOOSE j \in Edges(last.pre, last.to) :
                          \A k \in Edges(last.pre, last.to) : j <= k
                 g == Transitions[last.pre][i].Guard
             IN  GuardCalls = IF g = Nil THEN <<>> ELSE <<Ev("guard", g, i, last.pre)>>

\* A Transition that went through: one guard was called although the state
\* left has a second guarded edge.
C18_Witness ==
    /\ Succeeded
    /\ Len(GuardCalls) = 1
    /\ \E j \in DOMAIN Transitions[last.pre] :
          j # GuardCalls[1].idx /\ Transitions[last.pre][j].Guard # Nil
\* C19: Transition and Reset are the only calls that write sm.State, and
\* sm.State is all they write: whether the call succeeds or fails,
\* InitialState, the transition table and the two action maps are after the
\* call what they were before it.
C19_ConfigurationIsStable ==
    [][last'.op \in {"Transition", "Reset"} =>
          /\ InitialState' = InitialState
          /\ Transitions' = Transitions
          /\ entryActions' = entryActions
          /\ exitActions' = exitActions
      ]_vars

\* A Transition away from the initial state through a guarded edge, with an
\* exit action and an entry action run.
C19_Witness ==
    /\ Succeeded
    /\ State # InitialState
    /\ Len(GuardCalls) = 1
    /\ Len(Invocations("exit")) = 1
    /\ Len(Invocations("entry")) = 1
\* C20: a state without outgoing edges is absorbing.  While sm.State has no
\* list in the table every Transition fails and leaves sm.State as it is, and
\* sm.State changes only by Reset; this lasts until AddTransition registers
\* an edge from it.  In the trip program, with the engine in IN_PROGRESS
\* (reached from SCHEDULED), Transition(CANCELLED) is rejected and the state
\* stays IN_PROGRESS.
C20_NoEdgesIsAbsorbing ==
    /\ [][State \notin DOMAIN Transitions =>
             /\ last'.op = "Transition" => (last'.err # NoErr /\ State' = State)
             /\ State' # State => last'.op = "Reset"
         ]_vars
    /\ []((/\ rev = "lollipop"
           /\ Transitioned
           /\ last.pre = TripStatusInProgress
           /\ last.to = TripStatusCancelled)
          => (last.err # NoErr /\ State = TripStatusInProgress))

\* The trip program after its two requests: all three edges registered, the
\* engine in IN_PROGRESS, the request for CANCELLED just rejected.
C20_Witness ==
    /\ rev = "lollipop"
    /\ DOMAIN Transitions = {TripStatusScheduled, TripStatusInProgress}
    /\ Transitions[TripStatusScheduled] = <<TripStatusInProgress, TripStatusCancelled>>
    /\ Transitions[TripStatusInProgress] = <<TripStatusCompleted>>
    /\ Transitioned /\ last.pre = TripStatusInProgress /\ last.to = TripStatusCancelled
    /\ last.err # NoErr
    /\ State = TripStatusInProgress
\* The last call is Transition(s) made in state s over a registered edge
\* s -> s whose guard let it pass and whose exit and edge actions succeeded.
SelfTransition ==
    /\ PassedGuard
    /\ last.to = last.pre
    /\ ~ActionFails(Lookup(exitActions, last.pre))
    /\ ~ActionFails(FirstEdge(last.pre, last.to).Action)

\* C21: a self-transition is an ordinary transition.  Transition(s) in state
\* s over an edge s -> s runs the exit action of s, then the edge's action,
\* then the entry action of s (each when registered), and sm.State is s at
\* the end: the call returns nil when the entry action succeeds and
\* ErrEntryActionFailed when it fails, after s has been written over s and,
\* in the second case, written back.
C21_SelfTransitionIsOrdinary ==
    SelfTransition =>
        LET n == Lookup(entryActions, last.pre)
        IN  /\ [i \in DOMAIN ActionEvents |->
                   [ev |-> ActionEvents[i].ev, id |-> ActionEvents[i].id]] = C3_Expected
            /\ State = last.pre
            /\ last.err = IF ActionFails(n) THEN Err(ErrEntryActionFailed, "cause") ELSE NoErr
            /\ [i \in DOMAIN Writes |-> Writes[i].id]
                  = IF ActionFails(n) THEN <<last.pre, last.pre>> ELSE <<last.pre>>

\* A self-transition that ran an exit action, the edge's action and an entry
\* action that failed.
C21_Witness ==
    /\ SelfTransition
    /\ Failed
    /\ [i \in DOMAIN ActionEvents |-> ActionEvents[i].ev] = <<"exit", "action", "entry">>
    /\ State = last.pre
\* Both goroutines' calls have returned.
AllDone == DOMAIN calls.thread = Threads /\ \A t \in Threads : calls.thread[t].pc = "done"

\* sm.State after Transition(first) and then Transition(second), each run
\* from its call to its return, on the engine as constructed.
InOrder(first, second) ==
    LET m0 == [sm EXCEPT !.State = InitialState]
        m1 == [m0 EXCEPT !.State = Transition(m0, first).State]
    IN  Transition(m1, second).State

\* The values of sm.State the two calls leave when run one after the other,
\* in either order.
SequentialOutcomes ==
    { InOrder(calls.thread["t1"].to, calls.thread["t2"].to),
      InOrder(calls.thread["t2"].to, calls.thread["t1"].to) }

\* C22: the engine takes no lock; mutual exclusion is the callers' business.
\* When the callers hold a mutex around each Transition call, two calls
\* leave sm.State as one of their two sequential orders does.  Without it
\* the statements of the two calls interleave and sm.State can end as no
\* sequential order leaves it (C22_Witness: from A, the call to B rolls back
\* to A after the call to C has written C and returned nil).
C22_ExclusionIsTheCallersDuty ==
    (AllDone /\ calls.lock # "unused") => State \in SequentialOutcomes

\* Without a mutex: from A, goroutine t1 called Transition(B) and got
\* ErrEntryActionFailed, goroutine t2 called Transition(C) and got nil, and
\* sm.State is A, which neither order of the two calls leaves.
C22_Witness ==
    /\ AllDone
    /\ calls.lock = "unused"
    /\ calls.thread["t1"].to = "B"
    /\ calls.thread["t1"].err = Err(ErrEntryActionFailed, "cause")
    /\ calls.thread["t2"].to = "C"
    /\ calls.thread["t2"].err = NoErr
    /\ State = "A"
    /\ SequentialOutcomes = {"C"}
====
